---- MODULE Spec2Model ----
(***************************************************************************)
(* State-machine model of src/screenshot_capture.py: the capture session   *)
(* capture_website_content_no_screenshot and the scroll recorder           *)
(* record_scrolling_video_sync it calls, with create_video_from_frames_sync *)
(* and get_main_content_dom.  The browser page, the encoder and the file    *)
(* system are the environment: what they answer is drawn from small sets.  *)
(***************************************************************************)
EXTENDS Integers, Sequences, FiniteSets, TLC

VARIABLES
    caller,            \* which function is the entry point of this run
    record_video,      \* parameter record_video of the session
    pc,                \* position of the run in the code
    browser_open,      \* the browser launched by the session is running
    result,            \* return value of the entry point
    session_exc,       \* exception caught by the session's except clause
    viewport_height,   \* page.viewport_size["height"]
    total_height,      \* total_height as measured at line 130
    page_kind,         \* how the page answers window.pageYOffset
    page_height,       \* the height the document has now
    temp_dir,          \* the mkdtemp directory: "none", "exists", "removed"
    frames,            \* list frames: the frame file names, in capture order
    frame_count,       \* local frame_count
    current_scroll,    \* local current_scroll
    scroll_step,       \* local scroll_step
    max_scroll_top,    \* local max_scroll_top
    target_scroll,     \* local target_scroll
    start_y,           \* local start_y
    distance,          \* local distance
    frames_in_segment, \* local frames_in_segment
    i,                 \* loop variable of the eased for-loop
    y,                 \* last offset passed to window.scrollTo
    offsets,           \* the offsets passed to window.scrollTo in this segment
    actual_scroll,     \* local actual_scroll (read-back offset)
    iterations,        \* times the body of the while loop has been entered
    loop_exit,         \* how the while loop was left
    rec_exc,           \* exception raised inside the recorder
    video_success,     \* return value of the recorder
    ffmpeg_probed,     \* 'ffmpeg -version' was run
    ffmpeg_ran,        \* the encoding command was run
    video_file,        \* the encoder wrote the video file
    main_content,      \* main_content returned by get_main_content_dom
    selector_used,     \* selector_used returned by get_main_content_dom
    dom,               \* the page's elements as seen by get_main_content_dom
    extract_exc,       \* get_main_content_dom caught an exception
    dom_written,       \* the DOM artifact file was written
    options,           \* element_removal_options / parameter options
    page_nodes,        \* the elements the loaded document started with
    present,           \* the elements still in the document
    selectors_to_remove, \* list selectors_to_remove of the sanitizer
    san_applied,       \* indices of the selectors whose evaluate returned
    san_raised,        \* indices of the selectors whose evaluate raised
    removed_count,     \* local removed_count of the sanitizer
    steps,             \* the steps the run has started, in order
    soup,              \* the tags of the parsed content, in document order
    conversions,       \* what the converter run for each tag did
    session_no,        \* which run of the entry point in this process this is
    first_scroll_shown, \* record_scrolling_video_sync._first_scroll_shown is set
    notified,          \* this run printed the first-scroll notification
    output_path,       \* parameter output_path of the session
    video_output_path, \* local video_output_path (line 437)
    dom_output_path,   \* local dom_output_path (line 484)
    matches,           \* the elements of the page each selector matches
    selector,          \* local selector of screenshot_sections
    elements,          \* local elements of screenshot_sections
    elem_i,            \* how many of elements its for-loop has gone through
    files              \* the files screenshot_sections wrote to output_dir

vars == <<caller, record_video, pc, browser_open, result, session_exc,
          viewport_height, total_height, page_kind, page_height, temp_dir,
          frames,
          frame_count, current_scroll, scroll_step, max_scroll_top,
          target_scroll, start_y, distance, frames_in_segment, i, y,
          offsets, actual_scroll, iterations, loop_exit, rec_exc,
          video_success,
          ffmpeg_probed,
          ffmpeg_ran, video_file, main_content, selector_used, dom,
          extract_exc, dom_written, options, page_nodes, present,
          selectors_to_remove, san_applied, san_raised, removed_count,
          steps, soup, conversions, session_no, first_scroll_shown,
          notified, output_path, video_output_path, dom_output_path,
          matches, selector, elements, elem_i, files>>

recVars == <<iterations, temp_dir, frames, frame_count, current_scroll, scroll_step,
             max_scroll_top, target_scroll, start_y, distance,
             frames_in_segment, i, y, offsets, actual_scroll, loop_exit,
             rec_exc, ffmpeg_probed, ffmpeg_ran, video_file>>

pageVars == <<viewport_height, total_height, page_kind, page_height>>

extractVars == <<main_content, selector_used, dom, extract_exc, dom_written>>

sanVars == <<page_nodes, present, selectors_to_remove, san_applied,
             san_raised, removed_count>>

walkVars == <<soup, conversions>>

domVars == <<extractVars, options, sanVars, walkVars>>

latchVars == <<first_scroll_shown, notified>>

\* What neither the session nor the recorder writes.
pathVars == <<output_path, video_output_path, dom_output_path>>
sectionVars == <<matches, selector, elements, elem_i, files>>
otherVars == <<session_no, pathVars, sectionVars>>

(***************************************************************************)
(* Program constants.                                                      *)
(***************************************************************************)
SettleFrames == 12
PauseFrames == 12
FinalFrames == 12
Overlap == 100
ScrollEpsilon == 2
MinSegmentFrames == 8
MaxFrames == 360
SessionViewportHeight == 960
NameWidth == 4

(***************************************************************************)
(* Bounds of the environment.                                              *)
(***************************************************************************)
\* Tallest page, in thousands of pixels.
MaxPageK == 2
\* Most selectors other than body that match an element of the page.
MaxMatching == 2
\* Most elements of a document handed to the sanitizer.
MaxNodes == 2
\* Most runs of the entry point in one process.
MaxSessions == 2
\* Most pieces of a folder name after the domain.
MaxNameLen == 3
\* Most elements a selector matches on the page of screenshot_sections.
MaxElements == 2

\* Pages handed directly to the recorder: <<viewport height, height the
\* page reports at line 130>>.
DirectPages ==
    {<<100, 1000>>, <<800, 1000>>, <<800, 1200>>, <<800, 1300>>,
     <<6000, 12000>>}
\* Heights reported by the pages a session opens (its viewport is 960 high).
SessionHeights == {1440} \cup {1000 * k : k \in 1..MaxPageK}
\* A window so low that scroll_step is 2: the recorder alone is run on it.
NarrowPages == {<<102, 1000>>}
Pages ==
    DirectPages \cup NarrowPages
    \cup {<<SessionViewportHeight, h>> : h \in SessionHeights}
ViewportHeights == {p[1] : p \in DirectPages}
TotalHeights(vh) == {p[2] : p \in {q \in Pages : q[1] = vh}}
\* random.randint(800, 1100), line 188: the two ends of the range.
SegDurations == {800, 1100}
\* int(random.uniform(0.07, 0.09) * 1000), line 190: the two ends.
FrameIntervals == {70, 90}

Min(a, b) == IF a <= b THEN a ELSE b
Max(a, b) == IF a >= b THEN a ELSE b

(***************************************************************************)
(* f"frame_{frame_count:04d}.png": the decimal digits of the index, padded *)
(* with zeros on the left to at least four characters.                     *)
(***************************************************************************)
RECURSIVE Digits(_)
Digits(n) == IF n < 10 THEN <<n>> ELSE Append(Digits(n \div 10), n % 10)

ZeroPad(s, w) == IF Len(s) >= w THEN s ELSE [k \in 1..(w - Len(s)) |-> 0] \o s

FrameName(n) == ZeroPad(Digits(n), NameWidth)

\* The counter incremented before the path is built.
CaptureFrameIncrementFirst(st) ==
    [frames |-> Append(st.frames, FrameName(st.frame_count + 1)),
     frame_count |-> st.frame_count + 1]

\* Every frame written to the path of index 0.
CaptureFrameSamePath(st) ==
    [frames |-> Append(st.frames, FrameName(0)),
     frame_count |-> st.frame_count + 1]

\* One capture that succeeds: path from frame_count, append, increment
\* (lines 164-167, 204-207, 227-230, 258-261).
CaptureFrame(st) ==
    [frames |-> Append(st.frames, FrameName(st.frame_count)),
     frame_count |-> st.frame_count + 1]

\* A for-loop of k captures that all succeed.
RECURSIVE CaptureBurst(_, _)
CaptureBurst(st, k) == IF k = 0 THEN st ELSE CaptureBurst(CaptureFrame(st), k - 1)

Recorder == [frames |-> frames, frame_count |-> frame_count]

(***************************************************************************)
(* The eased offset of step i of n (lines 198-201):                        *)
(*   y = int(round(start_y + distance * (1 - (1 - i/n)^3)))                *)
(* computed on exact fractions; Python's round() takes a half to the even  *)
(* neighbour.  Python computes in floating point, which can differ from   *)
(* the exact value only at an exact half; for the pages of DirectPages and *)
(* SessionHeights and the segment lengths of FramesInSegment the two agree *)
(* on every offset.                                                        *)
(***************************************************************************)
RoundHalfEven(num, den) ==
    LET q == num \div den
        r == num % den
    IN  IF 2 * r < den THEN q
        ELSE IF 2 * r > den THEN q + 1
        ELSE IF q % 2 = 0 THEN q ELSE q + 1

Cube(n) == n * n * n

EasedY(s, d, k, n) ==
    RoundHalfEven(s * Cube(n) + d * (Cube(n) - Cube(n - k)), Cube(n))

\* The quotient of line 190 rounded up.
FramesInSegmentRoundedUp(seg_duration_ms, interval_ms) ==
    Max(MinSegmentFrames,
        (seg_duration_ms + interval_ms - 1) \div interval_ms)

\* Line 190.
FramesInSegment(seg_duration_ms, interval_ms) ==
    Max(MinSegmentFrames, seg_duration_ms \div interval_ms)

\* Every value random.randint(800, 1100) can return (line 188), and every
\* value of int(frame_interval_s * 1000) for a frame_interval_s that
\* random.uniform(0.07, 0.09) can return (lines 189-190).
SegDurationRange == 800..1100
FrameIntervalRange == 70..90

\* The values frames_in_segment can take.
SegmentCounts ==
    {FramesInSegment(seg, iv) : seg \in SegDurationRange,
                                iv \in FrameIntervalRange}

\* The test of line 144 with < for <=.
TooShortStrict(th, vh) == 2 * th < 3 * vh

\* Line 144: total_height <= viewport_height * 1.5.
TooShort(th, vh) == 2 * th <= 3 * vh

\* max_scroll_top without the viewport subtracted.
MaxScrollTopOfHeight(th, vh) == Max(0, th)

\* Line 173.
MaxScrollTop(th, vh) == Max(0, th - vh)

\* The target without the clamp to max_scroll_top.
SegmentTargetUnclamped(cur, step, maxTop) == cur + step

\* Line 185.
SegmentTarget(cur, step, maxTop) == Min(cur + step, maxTop)

(***************************************************************************)
(* What Math.round(window.pageYOffset) answers after a segment whose last  *)
(* scrollTo was to offset lastY: a plain page is where it was told to go;  *)
(* a scripted page may also have stayed where it was, jumped back to the   *)
(* top, or jumped beyond the measured height.  A growing page is where it   *)
(* was told to go.                                                         *)
(***************************************************************************)
ReadBacks(kind, lastY, cur, th) ==
    IF kind \in {"plain", "growing"} THEN {lastY} ELSE {lastY, cur, 0, th}

\* The kinds of page: those a session opens are plain or scripted, those
\* handed directly to the recorder may also grow.
PageKinds(c) ==
    IF c = "record" THEN {"plain", "scripted", "growing"}
    ELSE {"plain", "scripted"}

\* The height of the document after a segment has scrolled it: a growing
\* page loads one more viewport of content the first time it is scrolled.
GrownHeight(kind, ph, th, vh) ==
    IF kind = "growing" /\ ph = th THEN th + vh ELSE ph

(***************************************************************************)
(* Initial states: the entry point is either the capture session or the    *)
(* recorder called directly on a page somebody else opened.                *)
(***************************************************************************)
\* The session has not read its parameter element_removal_options yet.
OptionsUnread == [kind |-> "unread"]

\* Nothing has run yet.
Fresh ==
    /\ result = "none"
    /\ session_exc = "none"
    /\ total_height = 0
    /\ page_kind = "plain"
    /\ page_height = 0
    /\ temp_dir = "none"
    /\ iterations = 0
    /\ frames = <<>>
    /\ frame_count = 0
    /\ current_scroll = 0
    /\ scroll_step = 0
    /\ max_scroll_top = 0
    /\ target_scroll = 0
    /\ start_y = 0
    /\ distance = 0
    /\ frames_in_segment = 0
    /\ i = 0
    /\ y = 0
    /\ offsets = <<>>
    /\ actual_scroll = 0
    /\ loop_exit = "none"
    /\ rec_exc = "none"
    /\ video_success = TRUE
    /\ ffmpeg_probed = FALSE
    /\ ffmpeg_ran = FALSE
    /\ video_file = FALSE
    /\ main_content = <<"None">>
    /\ selector_used = "None"
    /\ dom = <<>>
    /\ extract_exc = FALSE
    /\ dom_written = FALSE
    /\ selectors_to_remove = <<>>
    /\ san_applied = {}
    /\ san_raised = {}
    /\ removed_count = 0
    /\ steps = <<>>
    /\ soup = <<>>
    /\ conversions = <<>>
    /\ notified = FALSE

\* The session's paths have no value in a run that does not look at them.
NoPaths ==
    /\ output_path = <<>>
    /\ video_output_path = <<>>
    /\ dom_output_path = <<>>

\* screenshot_sections is not running.
NoSections ==
    /\ matches = <<>>
    /\ selector = "section"
    /\ elements = <<>>
    /\ elem_i = 0
    /\ files = {}

Init ==
    /\ caller \in {"capture", "record"}
    /\ record_video \in (IF caller = "capture" THEN BOOLEAN ELSE {TRUE})
    /\ pc = IF caller = "capture" THEN "start" ELSE "record"
    /\ browser_open = (caller = "record")
    /\ viewport_height \in (IF caller = "capture" THEN {0} ELSE ViewportHeights)
    /\ options = OptionsUnread
    /\ page_nodes = <<>>
    /\ present = {}
    /\ session_no = 1
    /\ first_scroll_shown = FALSE
    /\ NoPaths
    /\ NoSections
    /\ Fresh

(***************************************************************************)
(* record_scrolling_video_sync                                             *)
(***************************************************************************)
\* The recorder's locals once it has returned.
LocalsGone ==
    /\ iterations' = 0
    /\ frames' = <<>>
    /\ frame_count' = 0
    /\ current_scroll' = 0
    /\ scroll_step' = 0
    /\ max_scroll_top' = 0
    /\ target_scroll' = 0
    /\ start_y' = 0
    /\ distance' = 0
    /\ frames_in_segment' = 0
    /\ i' = 0
    /\ y' = 0
    /\ offsets' = <<>>
    /\ actual_scroll' = 0
    /\ loop_exit' = "none"

\* A failed recording ending the session.
SessionAfterVideoStrict(v) == IF v THEN "settle" ELSE "done"

\* The session going from the recording straight to sanitization.
SessionAfterVideoSkipsWait(v) == "sanitize"

\* Lines 439-443: the session logs the recorder's return value and goes on
\* to the network-idle wait whatever it is.
SessionAfterVideo(v) == "settle"

\* The recorder returns v to its caller (lines 439-443, or the direct caller).
RecReturn(v) ==
    /\ video_success' = v
    /\ pc' = IF caller = "capture" THEN SessionAfterVideo(v) ELSE "done"
    /\ steps' = IF pc = "record" THEN steps \o <<"record", "recorded">>
                 ELSE Append(steps, "recorded")
    /\ result' = IF caller = "capture" THEN result
                  ELSE IF v THEN "True" ELSE "False"
    /\ UNCHANGED <<caller, record_video, browser_open, session_exc>>
    /\ UNCHANGED pageVars
    /\ UNCHANGED domVars
    /\ UNCHANGED latchVars
    /\ UNCHANGED otherVars

\* The finally clause skipped when an exception is on its way.
RecFinallyOnSuccessOnly(raised) == IF raised THEN "exists" ELSE "removed"

\* Lines 272-275: the finally clause removes the temp directory.
RecFinally(raised) == "removed"

\* The except clause reporting success.
RecExceptSwallows == TRUE

\* Lines 277-281: the except clause's return value.
RecExcept == FALSE

\* page.screenshot raises inside the try of line 152: the finally clause
\* runs, the except clause of line 277 returns False.
ShotRaises ==
    /\ \E kind \in {"shot_transient", "shot_persistent"} : rec_exc' = kind
    /\ temp_dir' = RecFinally(TRUE)
    /\ LocalsGone
    /\ RecReturn(RecExcept)
    /\ UNCHANGED <<ffmpeg_probed, ffmpeg_ran, video_file>>

\* The recorder's frame state after a step of the loop.
Captured(st) ==
    /\ frames' = st.frames
    /\ frame_count' = st.frame_count

RecStay ==
    /\ UNCHANGED <<caller, record_video, browser_open, result, session_exc,
                   video_success, steps>>
    /\ UNCHANGED domVars
    /\ UNCHANGED otherVars

\* Lines 122-150: measure the page, skip a short page, create the temp
\* directory.
RecordStart ==
    /\ pc = "record"
    /\ record_video
    /\ \E th \in TotalHeights(viewport_height), kind \in PageKinds(caller) :
         /\ total_height' = th
         /\ page_kind' = kind
         /\ page_height' = th
         /\ UNCHANGED viewport_height
         /\ IF TooShort(th, viewport_height)
               THEN /\ video_success' = TRUE
                    /\ pc' = IF caller = "capture" THEN SessionAfterVideo(TRUE)
                             ELSE "done"
                    /\ steps' = steps \o <<"record", "recorded">>
                    /\ result' = IF caller = "capture" THEN result ELSE "True"
                    /\ UNCHANGED <<caller, record_video, browser_open,
                                   session_exc>>
                    /\ UNCHANGED recVars
               ELSE /\ temp_dir' = "exists"
                    /\ pc' = "rec_init"
                    /\ steps' = Append(steps, "record")
                    /\ UNCHANGED <<caller, record_video, browser_open, result,
                                   session_exc, video_success>>
                    /\ UNCHANGED <<iterations, frames, frame_count, current_scroll,
                                   scroll_step, max_scroll_top, target_scroll,
                                   start_y, distance, frames_in_segment, i, y, offsets,
                                   actual_scroll, loop_exit, rec_exc,
                                   ffmpeg_probed, ffmpeg_ran, video_file>>
    /\ UNCHANGED domVars
    /\ UNCHANGED latchVars
    /\ UNCHANGED otherVars

\* page.evaluate of line 130 raises: caught at line 277, before any temp
\* directory exists.
RecordStartRaises ==
    /\ pc = "record"
    /\ record_video
    /\ rec_exc' = "evaluate"
    /\ RecReturn(RecExcept)
    /\ UNCHANGED <<iterations, temp_dir, frames, frame_count, current_scroll, scroll_step,
                   max_scroll_top, target_scroll, start_y, distance,
                   frames_in_segment, i, y, offsets, actual_scroll, loop_exit,
                   ffmpeg_probed, ffmpeg_ran, video_file>>

\* Lines 153-180: the initial settle burst, scroll_step and max_scroll_top.
RecInit ==
    /\ pc = "rec_init"
    /\ \/ ShotRaises
       \/ /\ Captured(CaptureBurst(Recorder, SettleFrames))
          /\ scroll_step' = viewport_height - Overlap
          /\ max_scroll_top' = MaxScrollTop(total_height, viewport_height)
          /\ pc' = "rec_loop"
          /\ RecStay
          /\ UNCHANGED latchVars
          /\ UNCHANGED pageVars
          /\ UNCHANGED <<iterations, temp_dir, current_scroll, target_scroll, start_y,
                         distance, frames_in_segment, i, y, offsets, actual_scroll,
                         loop_exit, rec_exc, ffmpeg_probed, ffmpeg_ran,
                         video_file>>

\* Lines 182-195: the loop test, the segment target, the frame count of the
\* segment, the zero-distance break.
RecLoop ==
    /\ pc = "rec_loop"
    /\ IF current_scroll < max_scroll_top - ScrollEpsilon
          THEN \E seg \in SegDurations, iv \in FrameIntervals :
                 LET target == SegmentTarget(current_scroll, scroll_step,
                                             max_scroll_top)
                     dist == Max(0, target - current_scroll)
                 IN  /\ target_scroll' = target
                     /\ frames_in_segment' = FramesInSegment(seg, iv)
                     /\ start_y' = current_scroll
                     /\ distance' = dist
                     /\ iterations' = iterations + 1
                     /\ IF dist <= 0
                           THEN pc' = "rec_final" /\ loop_exit' = "distance"
                           ELSE pc' = "rec_seg" /\ loop_exit' = loop_exit
          ELSE /\ pc' = "rec_final"
               /\ loop_exit' = "guard"
               /\ UNCHANGED <<target_scroll, frames_in_segment, start_y,
                              distance, iterations>>
    /\ RecStay
    /\ UNCHANGED latchVars
    /\ UNCHANGED pageVars
    /\ UNCHANGED <<temp_dir, frames, frame_count, current_scroll, scroll_step,
                   max_scroll_top, i, y, offsets, actual_scroll, rec_exc,
                   ffmpeg_probed, ffmpeg_ran, video_file>>

\* The for-loop without the early stop of lines 210-212: all n steps.
RECURSIVE SegmentOffsetsNoEarlyStop(_, _, _, _, _)
SegmentOffsetsNoEarlyStop(s, d, target, n, k) ==
    IF k = n THEN <<EasedY(s, d, k, n)>>
    ELSE <<EasedY(s, d, k, n)>>
         \o SegmentOffsetsNoEarlyStop(s, d, target, n, k + 1)

\* Lines 197-212: the offsets the eased for-loop passes to window.scrollTo,
\* from step k on: it stops after step n, or at the first offset within one
\* pixel of the target.
RECURSIVE SegmentOffsets(_, _, _, _, _)
SegmentOffsets(s, d, target, n, k) ==
    LET newY == EasedY(s, d, k, n)
    IN  IF newY >= target - 1 \/ k = n
           THEN <<newY>>
           ELSE <<newY>> \o SegmentOffsets(s, d, target, n, k + 1)

\* Lines 197-212: the eased for-loop: each step scrolls, then captures one
\* frame; a capture may raise.  The page may load more content while it is
\* scrolled; the recorder does not look at its height again.
RecSegment ==
    /\ pc = "rec_seg"
    /\ \/ ShotRaises
       \/ LET ys == SegmentOffsets(start_y, distance, target_scroll,
                                   frames_in_segment, 1)
          IN  /\ offsets' = ys
              /\ y' = ys[Len(ys)]
              /\ i' = Len(ys)
              /\ Captured(CaptureBurst(Recorder, Len(ys)))
              /\ pc' = "rec_read"
              /\ page_height' = GrownHeight(page_kind, page_height,
                                            total_height, viewport_height)
              /\ RecStay
              /\ UNCHANGED latchVars
              /\ UNCHANGED <<viewport_height, total_height, page_kind>>
              /\ UNCHANGED <<iterations, temp_dir, current_scroll, scroll_step,
                             max_scroll_top, target_scroll, start_y, distance,
                             frames_in_segment, actual_scroll, loop_exit,
                             rec_exc, ffmpeg_probed, ffmpeg_ran, video_file>>

\* The comparison of line 218 written with the wrong operator.
CannotScrollStrict(actual, cur) == actual < cur

\* Line 218: the page did not move.
CannotScroll(actual, cur) == actual = cur

\* The locals of one segment (lines 185-212): none is read after line 218,
\* and each is assigned again before it is read in the next iteration, so
\* the model forgets them once the offset read back has been compared.
IterationLocalsGone ==
    /\ target_scroll' = 0
    /\ start_y' = 0
    /\ distance' = 0
    /\ frames_in_segment' = 0
    /\ i' = 0
    /\ y' = 0
    /\ offsets' = <<>>

\* Lines 214-222: read the offset back; break when it did not change.
RecReadBack ==
    /\ pc = "rec_read"
    /\ \E actual \in ReadBacks(page_kind, y, current_scroll, total_height) :
         /\ actual_scroll' = actual
         /\ IF CannotScroll(actual, current_scroll)
               THEN /\ pc' = "rec_final"
                    /\ loop_exit' = "unchanged"
                    /\ UNCHANGED <<current_scroll, target_scroll, start_y,
                                   distance, frames_in_segment, i, y,
                                   offsets>>
               ELSE /\ pc' = "rec_pause"
                    /\ current_scroll' = actual
                    /\ IterationLocalsGone
                    /\ UNCHANGED loop_exit
    /\ RecStay
    /\ UNCHANGED latchVars
    /\ UNCHANGED pageVars
    /\ UNCHANGED <<iterations, temp_dir, frames, frame_count, scroll_step,
                   max_scroll_top, rec_exc, ffmpeg_probed, ffmpeg_ran,
                   video_file>>

\* The safety limit left out.
OverCapNever(fc) == FALSE

\* The safety limit with a digit too many.
OverCapTenfold(fc) == fc > MaxFrames * 10

\* Line 233.
OverCap(fc) == fc > MaxFrames

\* Line 252: the notification is due when the page has been scrolled and
\* the function has no attribute _first_scroll_shown yet.
ShowsFirstScroll(cur, shown) == cur > 0 /\ ~shown

\* Lines 224-254: the pause burst, then the frame-count safety limit, then
\* (the progress bar, which changes nothing, and) the first-scroll
\* notification, which sets the attribute of the function object.
\* actual_scroll is not read again before line 215 assigns it.
RecPause ==
    /\ pc = "rec_pause"
    /\ \/ ShotRaises
       \/ LET st == CaptureBurst(Recorder, PauseFrames)
              show == ShowsFirstScroll(current_scroll, first_scroll_shown)
          IN  /\ Captured(st)
              /\ IF OverCap(st.frame_count)
                    THEN /\ pc' = "rec_final" /\ loop_exit' = "cap"
                         /\ UNCHANGED latchVars
                    ELSE /\ pc' = "rec_loop" /\ loop_exit' = loop_exit
                         /\ first_scroll_shown' = (first_scroll_shown \/ show)
                         /\ notified' = (notified \/ show)
              /\ actual_scroll' = 0
              /\ RecStay
              /\ UNCHANGED pageVars
              /\ UNCHANGED <<iterations, temp_dir, current_scroll, scroll_step,
                             max_scroll_top, target_scroll, start_y,
                             distance, frames_in_segment, i, y, offsets,
                             rec_exc, ffmpeg_probed, ffmpeg_ran, video_file>>

\* Lines 256-261: the final settle burst.
RecFinal ==
    /\ pc = "rec_final"
    /\ \/ ShotRaises
       \/ /\ Captured(CaptureBurst(Recorder, FinalFrames))
          /\ pc' = "rec_asm"
          /\ RecStay
          /\ UNCHANGED latchVars
          /\ UNCHANGED pageVars
          /\ UNCHANGED <<iterations, temp_dir, current_scroll, scroll_step, max_scroll_top,
                         target_scroll, start_y, distance, frames_in_segment,
                         i, y, offsets, actual_scroll, loop_exit, rec_exc,
                         ffmpeg_probed, ffmpeg_ran, video_file>>

\* The encoding command run without the probe of lines 23-28.
CreateVideoSkippingProbe(ffmpeg) ==
    CASE ffmpeg = "missing" -> <<FALSE, TRUE, FALSE, FALSE>>
      [] ffmpeg = "fails"   -> <<FALSE, TRUE, FALSE, FALSE>>
      [] ffmpeg = "ok"      -> <<FALSE, TRUE, TRUE, TRUE>>

\* Lines 17-53: create_video_from_frames_sync.  The environment decides
\* whether ffmpeg is there and whether the encoding succeeds.
\* Returns <<probed, ran, file written, return value>>.
CreateVideo(ffmpeg) ==
    CASE ffmpeg = "missing" -> <<TRUE, FALSE, FALSE, FALSE>>
      [] ffmpeg = "fails"   -> <<TRUE, TRUE, FALSE, FALSE>>
      [] ffmpeg = "ok"      -> <<TRUE, TRUE, TRUE, TRUE>>

\* Lines 265-275: assemble the video when there is more than one frame,
\* remove the temp directory, return.
RecAssemble ==
    /\ pc = "rec_asm"
    /\ IF Len(frames) > 1
          THEN \E ffmpeg \in {"missing", "fails", "ok"} :
                 LET r == CreateVideo(ffmpeg)
                 IN  /\ ffmpeg_probed' = r[1]
                     /\ ffmpeg_ran' = r[2]
                     /\ video_file' = r[3]
                     /\ RecReturn(r[4])
          ELSE /\ UNCHANGED <<ffmpeg_probed, ffmpeg_ran, video_file>>
               /\ RecReturn(TRUE)
    /\ temp_dir' = RecFinally(FALSE)
    /\ LocalsGone
    /\ UNCHANGED rec_exc

(***************************************************************************)
(* get_main_content_dom                                                    *)
(***************************************************************************)
\* main_selectors, lines 357-366, in priority order.
MainSelectors ==
    <<"main", "[role=\"main\"]", ".main-content", "#main-content", ".content",
      "#content", "body > div:first-child", "body">>

BodyIndex == Len(MainSelectors)

\* Python's None, and the truth value of a content string.
NoneValue == <<"None">>
Truthy(v) == v # NoneValue /\ v # <<>>

\* A page, as the function sees it: for each selector whether it matches no
\* element ("absent"), or its first element has empty inner HTML ("empty")
\* or some inner HTML ("full").  An element inside body makes body's inner
\* HTML non-empty; a document without body has no element under it.
Doms ==
    {d \in [1..BodyIndex -> {"absent", "empty", "full"}] :
        LET others == {s \in 1..(BodyIndex - 1) : d[s] # "absent"}
        IN  /\ Cardinality(others) <= MaxMatching
            /\ d[BodyIndex] # "full" => others = {}}

\* elements[0].inner_html() of selector number s.
InnerHtml(d, s) == IF d[s] = "full" THEN <<MainSelectors[s]>> ELSE <<>>

\* Lines 371-377: the first selector from number s on that matches.
RECURSIVE FirstMatch(_, _)
FirstMatch(d, s) ==
    IF s > BodyIndex THEN 0
    ELSE IF d[s] # "absent" THEN s
    ELSE FirstMatch(d, s + 1)

\* The loop without its break: the last matching selector wins.
RECURSIVE LastMatch(_, _)
LastMatch(d, s) ==
    IF s > BodyIndex THEN 0
    ELSE LET later == LastMatch(d, s + 1)
         IN  IF later # 0 THEN later
             ELSE IF d[s] # "absent" THEN s ELSE 0

\* Lines 379-385: body's inner HTML when the loop left no content;
\* document.body is null in a document without body, and the evaluate
\* raises into the except clause of line 387.
BodyFallback(d, found) ==
    IF Truthy(found[1]) THEN found
    ELSE IF d[BodyIndex] = "absent" THEN <<NoneValue, "None">>
    ELSE <<InnerHtml(d, BodyIndex), "body">>

GetMainContentDomNoBreak(d, raises) ==
    IF raises THEN <<NoneValue, "None">>
    ELSE LET s == LastMatch(d, 1)
         IN  BodyFallback(d, IF s = 0 THEN <<NoneValue, "None">>
                                ELSE <<InnerHtml(d, s), MainSelectors[s]>>)

\* Lines 353-389: <<main_content, selector_used>>; raises: an element query
\* raised.
GetMainContentDom(d, raises) ==
    IF raises THEN <<NoneValue, "None">>
    ELSE LET s == FirstMatch(d, 1)
         IN  BodyFallback(d, IF s = 0 THEN <<NoneValue, "None">>
                                ELSE <<InnerHtml(d, s), MainSelectors[s]>>)

(***************************************************************************)
(* remove_unwanted_elements                                                *)
(***************************************************************************)
\* The double-quote character.
DQ == "\""

\* A selector is the sequence of the pieces of its text: 'div.ssr-variant'
\* is <<"div", ".", "ssr-variant">>, '[id*="cookie"]' is
\* <<"[", "id", "*=", DQ, "cookie", DQ, "]">>.
\* Line 62.
AlwaysSelectors == << <<"script">>, <<"noscript">> >>

\* Lines 67-70.
FramerSelectors ==
    << <<"div", ".", "ssr-variant">>, <<"div", "#", "__framer-badge-container">> >>

\* Lines 76-89.
CommonUnwanted ==
    << <<".", "advertisement">>, <<".", "ads">>, <<".", "cookie-banner">>,
       <<".", "gdpr-banner">>, <<"#", "cookie-notice">>,
       <<".", "popup-overlay">>, <<".", "modal-overlay">>,
       <<"[", "id", "*=", DQ, "cookie", DQ, "]">>,
       <<"[", "class", "*=", DQ, "cookie", DQ, "]">>,
       <<"[", "id", "*=", DQ, "gdpr", DQ, "]">>,
       <<"[", "class", "*=", DQ, "gdpr", DQ, "]">>,
       <<".", "tracking-consent">> >>

\* Custom selectors a caller may pass: a class, a structural pseudo-class,
\* and text that is no selector.
SelPromo == <<".", "promo">>
SelAds == <<".", "ads">>
SelDivEmpty == <<"div", ":empty">>
SelBroken == <<"div", "[">>

\* The values of options['custom_selectors'].
CustomLists ==
    {<<>>, <<SelPromo>>, <<SelDivEmpty>>, <<SelBroken>>,
     <<SelPromo, SelDivEmpty>>, <<SelDivEmpty, SelPromo>>,
     <<SelBroken, SelPromo>>, <<SelPromo, SelBroken>>,
     <<SelPromo, SelPromo>>, <<SelAds, SelPromo>>, <<SelPromo, SelAds>>}

\* The values of the parameter options: None, the empty dict, dicts with
\* some of the keys, dicts with all three: every combination of the flags
\* without and with a custom selector, and every custom list.
OptionsNone == [kind |-> "None"]
OptionsEmpty == [kind |-> "dict"]
AllOptions ==
    {OptionsNone, OptionsEmpty,
     [kind |-> "dict", remove_framer |-> TRUE],
     [kind |-> "dict", custom_selectors |-> <<SelPromo>>]}
    \cup [kind : {"dict"}, remove_framer : BOOLEAN,
          remove_common_unwanted : BOOLEAN,
          custom_selectors : {<<>>, <<SelPromo>>}]
    \cup [kind : {"dict"}, remove_framer : {FALSE},
          remove_common_unwanted : {FALSE}, custom_selectors : CustomLists]

\* The elements a document is made of.
ElementShapes ==
    {[tag |-> "script", id |-> "", class |-> ""],
     [tag |-> "noscript", id |-> "", class |-> ""],
     [tag |-> "div", id |-> "", class |-> ""],
     [tag |-> "div", id |-> "", class |-> "ads"],
     [tag |-> "div", id |-> "", class |-> "ssr-variant"],
     [tag |-> "div", id |-> "", class |-> "promo"],
     [tag |-> "div", id |-> "cookie-bar", class |-> ""]}

\* A document of n elements under body, in document order: element k is a
\* child of element parent < k, or of body (parent 0); only a div has
\* element children.
DocumentsOf(n) ==
    {d \in [1..n -> [tag : {"script", "noscript", "div"},
                     id : {"", "cookie-bar"},
                     class : {"", "ads", "ssr-variant", "promo"},
                     parent : 0..(n - 1)]] :
        \A k \in 1..n :
          /\ [tag |-> d[k].tag, id |-> d[k].id, class |-> d[k].class]
               \in ElementShapes
          /\ d[k].parent < k
          /\ d[k].parent # 0 => d[d[k].parent].tag = "div"}

Documents == UNION {DocumentsOf(n) : n \in 0..MaxNodes}

\* Element n is r or lies inside r.
RECURSIVE IsUnder(_, _, _)
IsUnder(d, n, r) ==
    IF n = r THEN TRUE
    ELSE IF d[n].parent = 0 THEN FALSE
    ELSE IsUnder(d, d[n].parent, r)

Subtree(d, r) == {n \in DOMAIN d : IsUnder(d, n, r)}

\* options.get(key, default) and the truth value of options (lines 64-94).
OptionsTruthy(opts) == opts.kind = "dict" /\ DOMAIN opts # {"kind"}
Get(opts, key, default) == IF key \in DOMAIN opts THEN opts[key] ELSE default

\* script and noscript added only inside 'if options:'.
ResolveSelectorsNeedsOptions(opts) ==
    IF OptionsTruthy(opts)
       THEN AlwaysSelectors
            \o (IF Get(opts, "remove_framer", FALSE)
                   THEN FramerSelectors ELSE <<>>)
            \o (IF Get(opts, "remove_common_unwanted", FALSE)
                   THEN CommonUnwanted ELSE <<>>)
            \o Get(opts, "custom_selectors", <<>>)
       ELSE <<>>

\* Lines 59-96: the list selectors_to_remove.
ResolveSelectors(opts) ==
    AlwaysSelectors
    \o (IF OptionsTruthy(opts)
           THEN (IF Get(opts, "remove_framer", FALSE)
                    THEN FramerSelectors ELSE <<>>)
                \o (IF Get(opts, "remove_common_unwanted", FALSE)
                       THEN CommonUnwanted ELSE <<>>)
                \o Get(opts, "custom_selectors", <<>>)
           ELSE <<>>)

\* Lines 102-103: the selector is pasted between two double quotes of the
\* script text, so a double quote inside it ends the string literal early
\* and the script does not parse; text that is no selector makes
\* querySelectorAll throw.  Either way page.evaluate raises.
HasQuote(sel) == \E k \in 1..Len(sel) : sel[k] = DQ
ValidCss(sel) == sel[Len(sel)] # "["
EvaluateRaises(sel) == HasQuote(sel) \/ ~ValidCss(sel)

\* The selector tests nothing but the element's own tag, id and class.
OwnAttributes(sel) ==
    \/ Len(sel) = 1
    \/ Len(sel) = 2 /\ sel[1] \in {".", "#"}
    \/ Len(sel) = 3 /\ sel[2] \in {".", "#"}

\* document.querySelectorAll(selector) on the document as it is now: does
\* element n match.
Matches(sel, d, pres, n) ==
    CASE Len(sel) = 1 -> d[n].tag = sel[1]
      [] Len(sel) = 2 /\ sel[1] = "." -> d[n].class = sel[2]
      [] Len(sel) = 2 /\ sel[1] = "#" -> d[n].id = sel[2]
      [] Len(sel) = 2 /\ sel[2] = ":empty" ->
           /\ d[n].tag = sel[1]
           /\ ~\E c \in pres : d[c].parent = n
      [] Len(sel) = 3 /\ sel[2] = "." ->
           d[n].tag = sel[1] /\ d[n].class = sel[3]
      [] Len(sel) = 3 /\ sel[2] = "#" ->
           d[n].tag = sel[1] /\ d[n].id = sel[3]
      [] OTHER -> FALSE

\* querySelector for querySelectorAll: only the first match is removed.
ApplySelectorFirstOnly(sel, d, pres) ==
    LET hit == {n \in pres : Matches(sel, d, pres, n)}
        first == {n \in hit : \A m \in hit : n <= m}
    IN  [present |-> pres \ UNION {Subtree(d, n) : n \in first},
         count |-> Cardinality(first)]

\* Lines 102-106: every element matching now is removed with all it
\* contains; the count is the number of matches.
ApplySelector(sel, d, pres) ==
    LET hit == {n \in pres : Matches(sel, d, pres, n)}
    IN  [present |-> pres \ UNION {Subtree(d, n) : n \in hit},
         count |-> Cardinality(hit)]

\* The try around the whole loop: the first selector that raises ends it.
RECURSIVE ApplyFromAborting(_, _, _, _)
ApplyFromAborting(sels, k, d, st) ==
    IF k > Len(sels) THEN st
    ELSE IF EvaluateRaises(sels[k])
         THEN [st EXCEPT !.raised = @ \cup {k}]
    ELSE LET r == ApplySelector(sels[k], d, st.present)
         IN  ApplyFromAborting(sels, k + 1, d,
                 [present |-> r.present,
                  applied |-> st.applied \cup {k},
                  raised |-> st.raised,
                  removed_count |-> st.removed_count + r.count])

\* Lines 99-109: the loop over selectors_to_remove from index k on, each
\* selector in its own try.
RECURSIVE ApplyFrom(_, _, _, _)
ApplyFrom(sels, k, d, st) ==
    IF k > Len(sels) THEN st
    ELSE IF EvaluateRaises(sels[k])
         THEN ApplyFrom(sels, k + 1, d, [st EXCEPT !.raised = @ \cup {k}])
    ELSE LET r == ApplySelector(sels[k], d, st.present)
         IN  ApplyFrom(sels, k + 1, d,
                 [present |-> r.present,
                  applied |-> st.applied \cup {k},
                  raised |-> st.raised,
                  removed_count |-> st.removed_count + r.count])

\* The sanitizer's state before its loop, on a document with elements pres.
BeforeLoop(pres) ==
    [present |-> pres, applied |-> {}, raised |-> {}, removed_count |-> 0]

\* Lines 56-117: remove_unwanted_elements(page, options) on document d with
\* elements pres.
RemoveUnwantedElements(opts, d, pres) ==
    ApplyFrom(ResolveSelectors(opts), 1, d, BeforeLoop(pres))

(***************************************************************************)
(* The inline-style walk and convert_css_to_tailwind                       *)
(***************************************************************************)
\* Text is the sequence of its pieces; these pieces are white space.
WhiteSpace == {" ", "\n"}

\* str.strip() and str.split().
RECURSIVE StripLeft(_)
StripLeft(t) ==
    IF t = <<>> THEN t
    ELSE IF Head(t) \in WhiteSpace THEN StripLeft(Tail(t)) ELSE t

RECURSIVE StripRight(_)
StripRight(t) ==
    IF t = <<>> THEN t
    ELSE IF t[Len(t)] \in WhiteSpace THEN StripRight(SubSeq(t, 1, Len(t) - 1))
    ELSE t

Strip(t) == StripRight(StripLeft(t))

IsWord(piece) == piece \notin WhiteSpace
Split(t) == SelectSeq(t, IsWord)

\* What running 'node convert_css.js' on one style did: it could not be
\* spawned, or it exited with a return code and some standard output.
ConverterRuns ==
    {[kind |-> "spawn_error", returncode |-> 0, stdout |-> <<>>],
     [kind |-> "exited", returncode |-> 1, stdout |-> <<"p-4", "\n">>],
     [kind |-> "exited", returncode |-> 0,
      stdout |-> <<"p-4", " ", "m-2", "\n">>],
     [kind |-> "exited", returncode |-> 0, stdout |-> <<"\n">>]}

\* The converter was not run for the tag.
NotCalled == [kind |-> "not_called", returncode |-> 0, stdout |-> <<>>]

\* The converter letting its failure out.
ConvertCssToTailwindPropagates(run) ==
    IF run.kind = "spawn_error" \/ run.returncode # 0
       THEN [raised |-> TRUE, value |-> <<>>]
       ELSE [raised |-> FALSE, value |-> Strip(run.stdout)]

\* extract_info_from_webpage.py lines 81-101: the stripped output, or ""
\* when the process cannot be spawned or exits non-zero; it never raises.
ConvertCssToTailwind(run) ==
    IF run.kind = "spawn_error" THEN [raised |-> FALSE, value |-> <<>>]
    ELSE IF run.returncode # 0 THEN [raised |-> FALSE, value |-> <<>>]
    ELSE [raised |-> FALSE, value |-> Strip(run.stdout)]

\* The tags of the content found under each selector of the session's
\* page: style is "absent" (no attribute), "" or a declaration; class is
\* the class list, empty when there is no attribute.
ParseContent(content) ==
    LET sel == content[1]
    IN  CASE sel = "main" ->
               << [style |-> "color:red", class |-> <<"hero", "big">>],
                  [style |-> "margin:0", class |-> <<>>] >>
          [] sel = "[role=\"main\"]" ->
               << [style |-> "", class |-> <<"a">>] >>
          [] sel = ".main-content" ->
               << [style |-> "absent", class |-> <<"plain">>],
                  [style |-> "color:red", class |-> <<>>] >>
          [] sel = ".content" ->
               << [style |-> "color:red", class |-> <<"x">>] >>
          [] sel = "#content" ->
               << [style |-> "absent", class |-> <<>>] >>
          [] sel = "body > div:first-child" ->
               << [style |-> "", class |-> <<>>] >>
          [] sel = "body" ->
               << [style |-> "color:red", class |-> <<"page">>],
                  [style |-> "absent", class |-> <<"keep">>],
                  [style |-> "", class |-> <<"b", "c">>] >>
          [] OTHER -> <<>>

\* Lines 488-491: the tags find_all(style=True) returns, and those whose
\* style is passed to the converter.
Styled(tag) == tag.style # "absent"
Converted(tag) == Styled(tag) /\ tag.style # ""

\* The converter runs the walk over tags s can meet.
RunsFor(s) ==
    {r \in [1..Len(s) -> ConverterRuns \cup {NotCalled}] :
        \A k \in 1..Len(s) : (r[k] = NotCalled) <=> ~Converted(s[k])}

\* The returned classes replacing the tag's own.
WalkTagReplacingClasses(tag, run) ==
    LET tw == IF Converted(tag) THEN ConvertCssToTailwind(run)
              ELSE [raised |-> FALSE, value |-> <<>>]
    IN  [raised |-> tw.raised,
         tag |-> IF tw.raised THEN tag
                 ELSE [style |-> "absent",
                       class |-> IF tw.value # <<>> THEN Split(tw.value)
                                 ELSE tag.class]]

\* Lines 489-495: one styled tag: convert a non-empty style, append the
\* returned classes to the tag's class list, delete the style attribute.
WalkTag(tag, run) ==
    LET tw == IF Converted(tag) THEN ConvertCssToTailwind(run)
              ELSE [raised |-> FALSE, value |-> <<>>]
    IN  [raised |-> tw.raised,
         tag |-> IF tw.raised THEN tag
                 ELSE [style |-> "absent",
                       class |-> IF tw.value # <<>>
                                    THEN tag.class \o Split(tw.value)
                                    ELSE tag.class]]

\* Lines 488-495: the for loop over the styled tags from tag k on; there
\* is no try in it, so a raising conversion would end it.
RECURSIVE WalkFrom(_, _, _)
WalkFrom(s, runs, k) ==
    IF k > Len(s) THEN [soup |-> s, raised |-> FALSE]
    ELSE IF ~Styled(s[k]) THEN WalkFrom(s, runs, k + 1)
    ELSE LET w == WalkTag(s[k], runs[k])
         IN  IF w.raised THEN [soup |-> s, raised |-> TRUE]
             ELSE WalkFrom([s EXCEPT ![k] = w.tag], runs, k + 1)

(***************************************************************************)
(* capture_website_content_no_screenshot                                   *)
(***************************************************************************)
SesStay ==
    /\ UNCHANGED <<caller, record_video, video_success>>
    /\ UNCHANGED pageVars
    /\ UNCHANGED recVars
    /\ UNCHANGED latchVars
    /\ UNCHANGED otherVars

\* Lines 519-520: the finally clause closes the browser; the value is
\* browser_open afterwards.
SessionFinally == FALSE

\* Lines 516-520: an exception inside the try: return False, close the
\* browser.
SessionRaises(e) ==
    /\ session_exc' = e
    /\ result' = "False"
    /\ browser_open' = SessionFinally
    /\ pc' = "done"

\* Lines 405-428: launch the browser, open a page, set timeout and viewport.
Launch ==
    /\ pc = "start"
    /\ browser_open' = TRUE
    /\ viewport_height' = SessionViewportHeight
    /\ pc' = "goto"
    /\ UNCHANGED <<caller, record_video, result, session_exc, total_height,
                   page_kind, page_height, video_success, steps>>
    /\ UNCHANGED recVars
    /\ UNCHANGED domVars
    /\ UNCHANGED latchVars
    /\ UNCHANGED otherVars

\* The document a session's page loads.
SessionDocument ==
    << [tag |-> "div", id |-> "", class |-> "", parent |-> 0],
       [tag |-> "script", id |-> "", class |-> "", parent |-> 1],
       [tag |-> "div", id |-> "", class |-> "promo", parent |-> 1],
       [tag |-> "div", id |-> "", class |-> "ads", parent |-> 0],
       [tag |-> "div", id |-> "cookie-bar", class |-> "", parent |-> 0] >>

\* The values of element_removal_options a session is called with.
SessionOptions ==
    {OptionsNone,
     [kind |-> "dict", remove_framer |-> TRUE,
      remove_common_unwanted |-> TRUE, custom_selectors |-> <<SelPromo>>]}

\* The ways page.goto fails: its timeout, or an error of the network.
GotoFailures == {"goto_timeout", "goto_error"}

\* Lines 430-432: page.goto returns with the document loaded, or raises;
\* there is no try around it but the session's own.
Goto ==
    /\ pc = "goto"
    /\ \/ /\ pc' = "record"
          /\ page_nodes' = SessionDocument
          /\ present' = DOMAIN SessionDocument
          /\ steps' = Append(steps, "navigate")
          /\ UNCHANGED <<browser_open, result, session_exc>>
       \/ /\ \E e \in GotoFailures : SessionRaises(e)
          /\ steps' = steps \o <<"navigate", "close">>
          /\ UNCHANGED <<page_nodes, present>>
    /\ SesStay
    /\ UNCHANGED extractVars
    /\ UNCHANGED <<options, selectors_to_remove, san_applied, san_raised,
                   removed_count>>
    /\ UNCHANGED walkVars

\* Line 436: record_video is false.
SkipRecord ==
    /\ pc = "record"
    /\ ~record_video
    /\ pc' = "settle"
    /\ UNCHANGED <<browser_open, result, session_exc, steps>>
    /\ SesStay
    /\ UNCHANGED domVars

\* Lines 445-454: the network-idle wait (a timeout is swallowed) and the
\* rendering delay, read from element_removal_options.  The lines before
\* read only its timeout, which has no value in this model, so the
\* parameter's value is drawn here, unless an earlier session of the
\* process was passed the object already.
Settle ==
    /\ pc = "settle"
    /\ pc' = "sanitize"
    /\ options' \in (IF options = OptionsUnread THEN SessionOptions
                     ELSE {options})
    /\ steps' = Append(steps, "settle")
    /\ UNCHANGED <<browser_open, result, session_exc>>
    /\ SesStay
    /\ UNCHANGED extractVars
    /\ UNCHANGED sanVars
    /\ UNCHANGED walkVars

\* Lines 456-458, 56-117: remove_unwanted_elements(page, options), called
\* by the session or directly; it returns nothing.
Sanitize ==
    /\ pc = "sanitize"
    /\ LET r == RemoveUnwantedElements(options, page_nodes, present)
       IN  /\ selectors_to_remove' = ResolveSelectors(options)
           /\ present' = r.present
           /\ san_applied' = r.applied
           /\ san_raised' = r.raised
           /\ removed_count' = r.removed_count
    /\ pc' = IF caller = "capture" THEN "text" ELSE "done"
    /\ steps' = Append(steps, "sanitize")
    /\ UNCHANGED <<browser_open, result, session_exc, options, page_nodes>>
    /\ SesStay
    /\ UNCHANGED extractVars
    /\ UNCHANGED walkVars

\* The text extract_webpage_text returns for the page of the k-th URL
\* (extract_info_from_webpage.py lines 26-78): "" when the script is
\* missing, finds nothing or raises, else the text of that page.
NoText == <<>>
PageText(k) == <<"text of url", k>>
ExtractedTexts(k) == {NoText, PageText(k)}

\* The dict with the item key: value set.
SetItem(opts, key, value) ==
    [k \in DOMAIN opts \cup {key} |-> IF k = key THEN value ELSE opts[k]]

\* The options object after lines 463-465.
KeepText(opts, text) ==
    IF text # NoText /\ opts # OptionsNone
       THEN SetItem(opts, "extracted_text", text)
       ELSE opts

\* Lines 460-468: extract_webpage_text inside its own try; a text that is
\* not empty is stored in the caller's options dict.
ExtractText ==
    /\ pc = "text"
    /\ pc' = "extract"
    /\ steps' = Append(steps, "text")
    /\ \E text \in ExtractedTexts(session_no) :
         options' = KeepText(options, text)
    /\ UNCHANGED <<browser_open, result, session_exc>>
    /\ SesStay
    /\ UNCHANGED extractVars
    /\ UNCHANGED sanVars
    /\ UNCHANGED walkVars

\* Lines 470-476: get_main_content_dom on the page as it is now.
GetMainContent ==
    /\ pc = "extract"
    /\ \E d \in Doms, raises \in BOOLEAN :
         LET r == GetMainContentDom(d, raises)
         IN  /\ dom' = d
             /\ extract_exc' = (raises \/ r[1] = NoneValue)
             /\ main_content' = r[1]
             /\ selector_used' = r[2]
    /\ pc' = "write"
    /\ steps' = Append(steps, "extract")
    /\ UNCHANGED <<browser_open, result, session_exc, dom_written, options>>
    /\ UNCHANGED sanVars
    /\ UNCHANGED walkVars
    /\ SesStay

\* The return value made of the video's and the artifact's success.
SessionReturnsArtifacts ==
    /\ result' = IF video_success /\ Truthy(main_content)
                     THEN "True" ELSE "False"
    /\ browser_open' = SessionFinally
    /\ pc' = "done"
    /\ UNCHANGED session_exc

\* The way out of the try when nothing raised: return content_success,
\* which line 472 set to True, and close the browser.
SessionReturns ==
    /\ result' = "True"
    /\ browser_open' = SessionFinally
    /\ pc' = "done"
    /\ UNCHANGED session_exc

\* Lines 478-520: with content, import the converter and the parser, parse
\* the content, walk the styled tags, write the artifact; any of these may
\* raise into the except of line 516.  Then return and close the browser.
WriteArtifact ==
    /\ pc = "write"
    /\ IF ~Truthy(main_content)
          THEN /\ SessionReturns
               /\ steps' = Append(steps, "close")
               /\ UNCHANGED <<dom_written, soup, conversions>>
          ELSE /\ steps' = steps \o <<"write", "close">>
               /\ \/ /\ SessionRaises("import")
                     /\ UNCHANGED <<dom_written, soup, conversions>>
                  \/ \E runs \in RunsFor(ParseContent(main_content)) :
                       LET w == WalkFrom(ParseContent(main_content), runs, 1)
                       IN  /\ soup' = w.soup
                           /\ conversions' = runs
                           /\ IF w.raised
                                 THEN /\ SessionRaises("convert")
                                      /\ UNCHANGED dom_written
                                 ELSE \/ /\ dom_written' = TRUE
                                         /\ SessionReturns
                                      \/ /\ SessionRaises("write")
                                         /\ UNCHANGED dom_written
    /\ SesStay
    /\ UNCHANGED <<main_content, selector_used, dom, extract_exc, options>>
    /\ UNCHANGED sanVars

Next ==
    \/ Launch
    \/ Goto
    \/ SkipRecord
    \/ RecordStart
    \/ RecordStartRaises
    \/ RecInit
    \/ RecLoop
    \/ RecSegment
    \/ RecReadBack
    \/ RecPause
    \/ RecFinal
    \/ RecAssemble
    \/ Settle
    \/ Sanitize
    \/ ExtractText
    \/ GetMainContent
    \/ WriteArtifact

Spec == Init /\ [][Next]_vars

\* remove_unwanted_elements called on its own: any options value, any
\* document of at most MaxNodes elements.
SanInit ==
    /\ caller = "sanitize"
    /\ record_video = FALSE
    /\ pc = "sanitize"
    /\ browser_open = TRUE
    /\ viewport_height = 0
    /\ options \in AllOptions
    /\ page_nodes \in Documents
    /\ present = DOMAIN page_nodes
    /\ session_no = 1
    /\ first_scroll_shown = FALSE
    /\ NoPaths
    /\ NoSections
    /\ Fresh

SanNext == Sanitize

SanitizeSpec == SanInit /\ [][SanNext]_vars

(***************************************************************************)
(* A process that runs its entry point more than once: the loop of main    *)
(* (extract_info_from_webpage.py lines 642-646) calls the session for each *)
(* URL with the same record_video and the same options object; the         *)
(* recorder is called for one page after another.  What lives in the       *)
(* process stays: the attribute of the function object and the options     *)
(* dict; all else is local to a call.  The sessions of the batch do not    *)
(* record: the recorder neither reads nor writes the options.              *)
(***************************************************************************)
\* The state of Fresh, for the call that comes next.
FreshAgain ==
    /\ LocalsGone
    /\ result' = "none"
    /\ session_exc' = "none"
    /\ total_height' = 0
    /\ page_kind' = "plain"
    /\ page_height' = 0
    /\ temp_dir' = "none"
    /\ rec_exc' = "none"
    /\ video_success' = TRUE
    /\ ffmpeg_probed' = FALSE
    /\ ffmpeg_ran' = FALSE
    /\ video_file' = FALSE
    /\ main_content' = <<"None">>
    /\ selector_used' = "None"
    /\ dom' = <<>>
    /\ extract_exc' = FALSE
    /\ dom_written' = FALSE
    /\ selectors_to_remove' = <<>>
    /\ san_applied' = {}
    /\ san_raised' = {}
    /\ removed_count' = 0
    /\ steps' = <<>>
    /\ soup' = <<>>
    /\ conversions' = <<>>
    /\ notified' = FALSE

NextSession ==
    /\ pc = "done"
    /\ session_no < MaxSessions
    /\ session_no' = session_no + 1
    /\ pc' = IF caller = "capture" THEN "start" ELSE "record"
    /\ browser_open' = (caller = "record")
    /\ viewport_height' \in (IF caller = "capture" THEN {0}
                              ELSE ViewportHeights)
    /\ page_nodes' = <<>>
    /\ present' = {}
    /\ FreshAgain
    /\ UNCHANGED <<caller, record_video, options, first_scroll_shown>>
    /\ UNCHANGED pathVars
    /\ UNCHANGED sectionVars

(***************************************************************************)
(* record_scrolling_video_sync called on its own, on the pages of          *)
(* DirectPages and NarrowPages.  The function is straight-line synchronous *)
(* code: once called, each of its steps returns or raises, so a step that  *)
(* is enabled is taken.                                                    *)
(***************************************************************************)
RecorderInit ==
    /\ caller = "record"
    /\ record_video = TRUE
    /\ pc = "record"
    /\ browser_open = TRUE
    /\ viewport_height \in {p[1] : p \in DirectPages \cup NarrowPages}
    /\ options = OptionsUnread
    /\ page_nodes = <<>>
    /\ present = {}
    /\ session_no = 1
    /\ first_scroll_shown = FALSE
    /\ NoPaths
    /\ NoSections
    /\ Fresh

RecorderNext ==
    \/ RecordStart
    \/ RecordStartRaises
    \/ RecInit
    \/ RecLoop
    \/ RecSegment
    \/ RecReadBack
    \/ RecPause
    \/ RecFinal
    \/ RecAssemble

RecorderSpec ==
    RecorderInit /\ [][RecorderNext]_vars /\ WF_vars(RecorderNext)

BatchInit == Init /\ (caller = "capture" => ~record_video)

BatchNext == Next \/ NextSession

BatchSpec == BatchInit /\ [][BatchNext]_vars

(***************************************************************************)
(* The paths of the artifacts.  A path is the sequence of the pieces of    *)
(* its text; '.png' is one piece, and no other piece holds a part of it.   *)
(***************************************************************************)
\* The values of base_output_dir.
BaseDirs == {<<"out">>, <<"processed_screenshots">>}

\* The values of safe_folder_name (extract_info_from_webpage.py lines
\* 338-356): the domain and path of the URL, made of alphanumerics, '-',
\* '.' and '_': the domain, then the pieces of the URL's path, which may
\* hold '.png' after a first piece, as in example.com_img.png.
NamePieces == {"_img", ".png", "-v2"}
SafeFolderNames ==
    {<<"example.com">> \o t :
        t \in {u \in UNION {[1..n -> NamePieces] : n \in 0..MaxNameLen} :
                  u # <<>> => u[1] # ".png"}}

\* extract_info_from_webpage.py lines 359-362: screenshot_path.
ScreenshotPath(base, name) ==
    base \o <<"/">> \o name \o <<"/">> \o name \o <<"_full_page", ".png">>

OutputPaths ==
    {ScreenshotPath(base, name) : base \in BaseDirs, name \in SafeFolderNames}

\* str.replace(old, new): every occurrence of old is replaced.
Replace(path, old, new) ==
    [k \in DOMAIN path |-> IF path[k] = old THEN new ELSE path[k]]

\* Line 437.
VideoOutputPath(path) == Replace(path, ".png", "_scroll_video.mp4")

\* Line 484.
DomOutputPath(path) == Replace(path, ".png", "_dom.html")

PathStay ==
    /\ UNCHANGED <<caller, record_video, browser_open, result, session_exc,
                   video_success, steps, session_no, output_path>>
    /\ UNCHANGED pageVars
    /\ UNCHANGED recVars
    /\ UNCHANGED domVars
    /\ UNCHANGED latchVars
    /\ UNCHANGED sectionVars

\* Line 437.
DeriveVideoPath ==
    /\ pc = "path_video"
    /\ video_output_path' = VideoOutputPath(output_path)
    /\ pc' = "path_dom"
    /\ UNCHANGED dom_output_path
    /\ PathStay

\* Line 484.
DeriveDomPath ==
    /\ pc = "path_dom"
    /\ dom_output_path' = DomOutputPath(output_path)
    /\ pc' = "done"
    /\ UNCHANGED video_output_path
    /\ PathStay

\* The two derivations on the paths process_url builds.
PathInit ==
    /\ caller = "paths"
    /\ record_video = TRUE
    /\ pc = "path_video"
    /\ browser_open = FALSE
    /\ viewport_height = 0
    /\ options = OptionsUnread
    /\ page_nodes = <<>>
    /\ present = {}
    /\ session_no = 1
    /\ first_scroll_shown = FALSE
    /\ output_path \in OutputPaths
    /\ video_output_path = <<>>
    /\ dom_output_path = <<>>
    /\ NoSections
    /\ Fresh

PathNext == DeriveVideoPath \/ DeriveDomPath

PathSpec == PathInit /\ [][PathNext]_vars

(***************************************************************************)
(* section_screenshots.py: screenshot_sections(url, output_dir, selector). *)
(***************************************************************************)
\* An element as the loop sees it: is_visible(), its inner HTML, and what
\* downloading its image did ("none": it has no img tag).
ElementKinds ==
    {e \in [visible : BOOLEAN, html : {"", "content"},
            img : {"none", "saved", "failed"}] :
        e.html = "" => e.img = "none"}

ElementLists == UNION {[1..n -> ElementKinds] : n \in 0..MaxElements}

\* common_selectors, line 97; the page is asked for each in turn.
CommonSelectors == <<"div", ".container", ".content", ".card", ".panel", "article">>

\* The pages: what 'section' matches and, for a page without sections,
\* what 'div' matches; the other common selectors match nothing.
SectionPages ==
    {pg \in [section : ElementLists, div : ElementLists] :
        pg.section = <<>> \/ pg.div = <<>>}

\* Lines 92-103: the elements of the selector, or of the first common
\* selector that matches when it matches none: <<elements, selector>>.
QuerySelectorAll(pg, sel) == IF sel \in DOMAIN pg THEN pg[sel] ELSE <<>>
RECURSIVE FirstCommon(_, _)
FirstCommon(pg, k) ==
    IF k > Len(CommonSelectors) THEN <<<<>>, "section">>
    ELSE IF QuerySelectorAll(pg, CommonSelectors[k]) # <<>>
         THEN <<QuerySelectorAll(pg, CommonSelectors[k]), CommonSelectors[k]>>
    ELSE FirstCommon(pg, k + 1)
FindElements(pg) ==
    IF QuerySelectorAll(pg, "section") # <<>>
       THEN <<QuerySelectorAll(pg, "section"), "section">>
       ELSE LET r == FirstCommon(pg, 1)
            IN  IF r[1] = <<>> THEN <<<<>>, "section">> ELSE r

\* Lines 108-194: the files written for element number n (from 1): the
\* screenshot of lines 127-129 is commented out; a downloaded image is
\* saved as element_n_img_1 with its extension, the HTML as element_n.html;
\* an element that is not visible or is empty leaves no file.
FilesOfElement(e, n) ==
    IF ~e.visible \/ e.html = "" THEN {}
    ELSE {<<"element_", n, ".html">>}
         \cup (IF e.img = "saved" THEN {<<"element_", n, "_img_", 1, ".jpg">>}
               ELSE {})

SectionStay ==
    /\ UNCHANGED <<caller, record_video, result, session_exc, video_success,
                   steps, session_no, options>>
    /\ UNCHANGED pageVars
    /\ UNCHANGED recVars
    /\ UNCHANGED extractVars
    /\ UNCHANGED sanVars
    /\ UNCHANGED walkVars
    /\ UNCHANGED latchVars
    /\ UNCHANGED pathVars

\* Lines 40-105: launch, load and scroll the page (no file is written),
\* then find the elements.
QueryElements ==
    /\ pc = "sec_query"
    /\ elements' = FindElements(matches)[1]
    /\ selector' = FindElements(matches)[2]
    /\ pc' = "sec_loop"
    /\ UNCHANGED <<browser_open, matches, elem_i, files>>
    /\ SectionStay

\* Lines 108-194: one round of the for-loop; whatever raises inside it is
\* caught at line 192 and the loop goes on.
ProcessElement ==
    /\ pc = "sec_loop"
    /\ elem_i < Len(elements)
    /\ \E raises \in BOOLEAN :
         files' = IF raises THEN files
                  ELSE files \cup FilesOfElement(elements[elem_i + 1],
                                                  elem_i + 1)
    /\ elem_i' = elem_i + 1
    /\ UNCHANGED <<pc, browser_open, matches, selector, elements>>
    /\ SectionStay

\* Line 196.
CloseSections ==
    /\ pc = "sec_loop"
    /\ elem_i = Len(elements)
    /\ pc' = "done"
    /\ browser_open' = FALSE
    /\ UNCHANGED sectionVars
    /\ SectionStay

SectionsInit ==
    /\ caller = "sections"
    /\ record_video = FALSE
    /\ pc = "sec_query"
    /\ browser_open = TRUE
    /\ viewport_height = 0
    /\ options = OptionsUnread
    /\ page_nodes = <<>>
    /\ present = {}
    /\ session_no = 1
    /\ first_scroll_shown = FALSE
    /\ NoPaths
    /\ matches \in SectionPages
    /\ selector = "section"
    /\ elements = <<>>
    /\ elem_i = 0
    /\ files = {}
    /\ Fresh

SectionsNext == QueryElements \/ ProcessElement \/ CloseSections

SectionsSpec == SectionsInit /\ [][SectionsNext]_vars

(***************************************************************************)
(* Properties.                                                             *)
(***************************************************************************)
\* Positions inside record_scrolling_video_sync after the temp directory
\* has been created, and those of its scroll loop.
RecPcs ==
    {"rec_init", "rec_loop", "rec_seg", "rec_read", "rec_pause", "rec_final",
     "rec_asm"}
LoopPcs == {"rec_loop", "rec_seg", "rec_read", "rec_pause"}

\* The four decimal digits of n < 10000.
FourDigits(n) == <<n \div 1000, (n \div 100) % 10, (n \div 10) % 10, n % 10>>

\* C1: the k-th frame captured (k from 0) is written under index k: the
\* names in frames are exactly 0..frame_count-1 in order, without gap or
\* repeat, each four digits wide.
C1_FrameIndicesContiguous ==
    /\ Len(frames) = frame_count
    /\ \A k \in 1..Len(frames) : frames[k] = FourDigits(k - 1)

\* C1 witness: a recording that went through the initial burst, segments,
\* pause bursts and the final burst.
C1_Witness ==
    /\ pc = "rec_asm"
    /\ loop_exit = "guard"
    /\ frame_count > 100
    /\ Len(frames) = frame_count

\* C2: every segment target and every offset passed to window.scrollTo is
\* at most max_scroll_top = max(0, total_height - viewport_height).
C2_ScrollWithinMax ==
    /\ target_scroll <= max_scroll_top
    /\ y <= max_scroll_top
    /\ \A k \in 1..Len(offsets) : offsets[k] <= max_scroll_top
    /\ pc \in LoopPcs =>
         /\ total_height >= viewport_height =>
              max_scroll_top = total_height - viewport_height
         /\ total_height < viewport_height => max_scroll_top = 0

\* C2 witness: a segment whose step would overshoot has scrolled to
\* max_scroll_top.
C2_Witness ==
    /\ pc = "rec_read"
    /\ y = max_scroll_top
    /\ start_y + scroll_step > max_scroll_top
    /\ start_y > 0

\* C3: a page with total_height <= 1.5 * viewport_height is not recorded:
\* no frame, no temp directory, no encoder run, no video file, and the
\* recorder returns True.
C3_ShortPageSkipped ==
    (record_video /\ total_height > 0 /\ 2 * total_height <= 3 * viewport_height)
    => /\ pc \notin RecPcs
       /\ frames = <<>> /\ frame_count = 0
       /\ temp_dir = "none"
       /\ ~ffmpeg_probed /\ ~ffmpeg_ran /\ ~video_file
       /\ video_success
       /\ rec_exc = "none"
       /\ caller = "record" => result = "True"

\* C3 witness: a page of exactly 1.5 viewport heights has been skipped.
C3_Witness ==
    /\ total_height = 1200 /\ viewport_height = 800
    /\ pc = "done" /\ result = "True"

\* C4 as stated: with total_height=1000 and viewport_height=800 the recorder
\* records: scroll_step=700, max_scroll_top=200, one segment with target 200.
C4_Original ==
    (viewport_height = 800 /\ total_height = 1000)
    => /\ pc = "done" /\ rec_exc = "none" => temp_dir = "removed"
       /\ pc \in LoopPcs => scroll_step = 700 /\ max_scroll_top = 200
       /\ pc \in {"rec_seg", "rec_read"} => target_scroll = 200

\* C4 amended: 1000 <= 1.5 * 800, so that page is skipped without a frame;
\* with total_height=1300 and viewport_height=800 the recorder has
\* scroll_step=700 and max_scroll_top=500, its segment's target is clamped
\* to 500, and on a page that reports the offset it was scrolled to (499 or
\* 500, by the early stop) the loop runs that one segment and its pause
\* burst only.
C4_ClampedSingleSegment ==
    /\ [](viewport_height = 800 /\ total_height = 1000 =>
            pc \notin RecPcs /\ temp_dir = "none" /\ frames = <<>>)
    /\ []((viewport_height = 800 /\ total_height = 1300) =>
            /\ pc = "done" /\ rec_exc = "none" => temp_dir = "removed"
            /\ pc \in LoopPcs => scroll_step = 700 /\ max_scroll_top = 500
            /\ pc \in {"rec_seg", "rec_read"} => target_scroll = 500
            /\ (page_kind = "plain" /\ pc \in {"rec_final", "rec_asm"}) =>
                 /\ loop_exit = "guard"
                 /\ current_scroll \in {499, 500})
    /\ [][(viewport_height = 800 /\ total_height = 1300 /\ page_kind = "plain"
           /\ pc = "rec_loop" /\ pc' = "rec_seg")
          => frame_count = SettleFrames /\ current_scroll = 0]_vars

\* C4 witness: the 1300-pixel page recorded to the end of its one segment.
C4_Witness ==
    /\ viewport_height = 800 /\ total_height = 1300 /\ page_kind = "plain"
    /\ pc = "rec_asm" /\ current_scroll = 500 /\ loop_exit = "guard"

\* The most frames one segment can have: 1100 ms at 70 ms per frame.
MaxSegmentFrames == FramesInSegment(1100, 70)

\* C5 as stated: when the read-back offset equals the offset before the
\* segment the loop ends at once, with at most 360 frames captured.
C5_Original ==
    [][(pc = "rec_read" /\ actual_scroll' = current_scroll)
       => /\ pc' = "rec_final"
          /\ frames' = frames /\ frame_count' = frame_count
          /\ frame_count' <= MaxFrames]_vars

\* C5 amended: when the read-back offset equals the offset before the
\* segment the loop ends at once (no pause burst, no further segment); the
\* frame count at that moment is at most 360 plus the frames of the segment
\* just run, 375.
C5_UnchangedOffsetEndsLoop ==
    [][(pc = "rec_read" /\ actual_scroll' = current_scroll)
       => /\ pc' = "rec_final"
          /\ loop_exit' = "unchanged"
          /\ frames' = frames /\ frame_count' = frame_count
          /\ frame_count' <= MaxFrames + MaxSegmentFrames]_vars

\* C5 witness: the loop left because the offset did not change, with more
\* than 360 frames.
C5_Witness ==
    /\ pc = "rec_final" /\ loop_exit = "unchanged"
    /\ actual_scroll = current_scroll
    /\ frame_count > MaxFrames

\* C6 as stated: the number of captured frames never exceeds 360.
C6_Original == frame_count <= MaxFrames /\ Len(frames) <= MaxFrames

\* C6 amended: the limit is tested only after a pause burst: a new segment
\* starts with at most 360 frames, and the session never holds more than
\* 360 + 15 + 12 + 12 = 399.
C6_FrameCountBounded ==
    /\ frame_count <= MaxFrames + MaxSegmentFrames + PauseFrames + FinalFrames
    /\ Len(frames) <= MaxFrames + MaxSegmentFrames + PauseFrames + FinalFrames
    /\ pc \in {"rec_loop", "rec_seg"} => frame_count <= MaxFrames

\* C6 witness: a recording that ends with 399 frames.
C6_Witness == pc = "rec_asm" /\ frame_count = 399 /\ loop_exit = "cap"

\* C7: whenever the session has returned, the browser is closed and the
\* temp directory, if one was created, is removed; outside the recorder no
\* temp directory exists.
C7_CleanupOnEveryExit ==
    /\ (caller = "capture" /\ pc = "done") =>
         ~browser_open /\ temp_dir # "exists" /\ result # "none"
    /\ pc \notin RecPcs => temp_dir # "exists"

\* C7 witness: a session whose recording raised and whose artifact write
\* raised has returned.
C7_Witness ==
    /\ caller = "capture" /\ pc = "done"
    /\ rec_exc = "shot_persistent" /\ session_exc = "write"
    /\ temp_dir = "removed"

\* C8 as stated: a capture that fails once is retried, so the recording goes
\* on to the encoder; one that keeps failing makes the session fail.
C8_Original ==
    (caller = "capture" /\ pc = "done" /\ session_exc = "none") =>
      /\ rec_exc = "shot_transient" => ffmpeg_probed
      /\ rec_exc = "shot_persistent" => result = "False"

\* C8 amended: a failing frame capture is not retried: the recording is
\* abandoned at once (no encoder run, temp directory removed, the recorder
\* returns False) and the session goes on to extraction, returning True
\* unless a later step raises.
C8_CaptureFailureAbandonsVideo ==
    (rec_exc \in {"shot_transient", "shot_persistent"}) =>
      /\ pc \notin RecPcs
      /\ ~video_success
      /\ ~ffmpeg_probed /\ ~ffmpeg_ran /\ ~video_file
      /\ temp_dir = "removed"
      /\ (caller = "capture" /\ pc = "done" /\ session_exc = "none") =>
           result = "True"
      /\ (caller = "record" /\ pc = "done") => result = "False"

\* C8 witness: a session whose frame capture kept failing has written its
\* DOM artifact and returned True.
C8_Witness ==
    /\ caller = "capture" /\ pc = "done"
    /\ rec_exc = "shot_persistent"
    /\ dom_written /\ result = "True"

\* The session has run get_main_content_dom.
Extracted == pc \in {"write", "done"} /\ (dom # <<>>)

\* C9: when extraction yields no content the session does not return
\* success and no DOM artifact is produced.
C9_NoContentFails ==
    (caller = "capture" /\ pc = "done" /\ Extracted /\ ~Truthy(main_content))
    => result # "True" /\ ~dom_written

\* The selectors of d that match, and the first of them in priority order.
Matching(d) == {s \in 1..BodyIndex : d[s] # "absent"}
First(d) == CHOOSE s \in Matching(d) : \A t \in Matching(d) : s <= t

\* C10 as stated: the result is the content of the first element of the
\* first matching selector, with that selector, whatever the content.
C10_Original ==
    (Extracted /\ ~extract_exc /\ Matching(dom) # {}) =>
      /\ selector_used = MainSelectors[First(dom)]
      /\ main_content = InnerHtml(dom, First(dom))

\* C10 amended: the result is the content of the first element of the first
\* matching selector, with that selector, when that content is not empty;
\* when it is empty the result is body's inner HTML with selector 'body'.
C10_FirstNonEmptyMatchOrBody ==
    (Extracted /\ ~extract_exc /\ Matching(dom) # {}) =>
      IF dom[First(dom)] = "full"
         THEN /\ selector_used = MainSelectors[First(dom)]
              /\ main_content = <<MainSelectors[First(dom)]>>
         ELSE /\ selector_used = "body"
              /\ main_content = (IF dom[BodyIndex] = "full"
                                    THEN <<"body">> ELSE <<>>)

\* C10 witness: main matches with empty content, .content has content, and
\* the result is body's.
C10_Witness ==
    /\ Extracted /\ ~extract_exc
    /\ dom[1] = "empty" /\ dom[5] = "full"
    /\ selector_used = "body" /\ main_content = <<"body">>

\* remove_unwanted_elements has returned.
Sanitized == \E k \in 1..Len(steps) : steps[k] = "sanitize"

\* The element has tag t.
HasTag(n, t) == page_nodes[n].tag = t

\* C11: whatever options is, script and noscript head the selector list,
\* both are applied, and no script or noscript element is left in the
\* document.
C11_ScriptsAlwaysRemoved ==
    Sanitized =>
      /\ Len(selectors_to_remove) >= 2
      /\ selectors_to_remove[1] = <<"script">>
      /\ selectors_to_remove[2] = <<"noscript">>
      /\ {1, 2} \subseteq san_applied
      /\ \A n \in present : ~HasTag(n, "script") /\ ~HasTag(n, "noscript")

\* C11 witness: called with options None on a document made of a script
\* and a noscript element, the sanitizer has removed both.
C11_Witness ==
    /\ caller = "sanitize" /\ pc = "done"
    /\ options = OptionsNone
    /\ \E n \in DOMAIN page_nodes : HasTag(n, "script")
    /\ \E n \in DOMAIN page_nodes : HasTag(n, "noscript")
    /\ present = {} /\ removed_count = 2

\* C12: a selector whose evaluate raises is skipped and nothing else is:
\* every selector of the list either raised or was applied, the ones that
\* raised are exactly those whose script is malformed, no element matching
\* an applied tag, id or class selector is left, whether that selector comes
\* before or after one that raised, and the sanitizer returns normally.
C12_RaisingSelectorSkipped ==
    Sanitized =>
      /\ san_applied \cup san_raised = 1..Len(selectors_to_remove)
      /\ san_applied \cap san_raised = {}
      /\ san_raised = {k \in 1..Len(selectors_to_remove) :
                          EvaluateRaises(selectors_to_remove[k])}
      /\ \A k \in san_applied :
           OwnAttributes(selectors_to_remove[k]) =>
             ~\E n \in present :
                 Matches(selectors_to_remove[k], page_nodes, present, n)
      /\ session_exc = "none"
      /\ (caller = "sanitize" => pc = "done")

\* C12 witness: custom selectors 'div[' and '.promo' on a document with a
\* promo element: the first raised, the second, after it, removed the
\* element, as script and noscript before it were applied.
C12_Witness ==
    /\ caller = "sanitize" /\ pc = "done"
    /\ selectors_to_remove = AlwaysSelectors \o <<SelBroken, SelPromo>>
    /\ san_raised = {3} /\ san_applied = {1, 2, 4}
    /\ \E n \in DOMAIN page_nodes : page_nodes[n].class = "promo"
    /\ \E n \in DOMAIN page_nodes : HasTag(n, "script")
    /\ present = {}

\* The list with the selectors at k and k+1 exchanged, and the list
\* reversed.
SwapAt(q, k) ==
    [j \in 1..Len(q) |-> IF j = k THEN q[k + 1] ELSE IF j = k + 1 THEN q[k]
                         ELSE q[j]]
Reversed(q) == [j \in 1..Len(q) |-> q[Len(q) + 1 - j]]
Reorderings(q) == {SwapAt(q, k) : k \in 1..(Len(q) - 1)} \cup {Reversed(q)}

\* The document left when the selectors of q are applied in the order of q
\* to all of page_nodes.
FinalDom(q) == ApplyFrom(q, 1, page_nodes, BeforeLoop(DOMAIN page_nodes)).present

\* What is left of page_nodes without every element that matches, in the
\* document as loaded, a selector of q that can be evaluated, and without
\* what those elements contain.
WithoutMatches(q) ==
    LET all == DOMAIN page_nodes
        hit == {n \in all : \E k \in 1..Len(q) :
                   /\ ~EvaluateRaises(q[k])
                   /\ Matches(q[k], page_nodes, all, n)}
    IN  all \ UNION {Subtree(page_nodes, n) : n \in hit}

\* C13 as stated: the final document is the same for every order of the
\* selectors.
C13_Original ==
    (Sanitized /\ caller = "sanitize") =>
      \A q \in Reorderings(selectors_to_remove) : FinalDom(q) = present

\* C13 amended: when every selector of the list that can be evaluated tests
\* only the element's own tag, id and class, the final document is the
\* loaded one without the elements matching any of them and without what
\* these contain, so it is the same for every order, also when selectors
\* overlap, a matched element contains another, or a selector comes twice.
\* With a selector that looks at the element's surroundings, such as
\* div:empty, the order decides.
C13_OrderFreeForOwnAttributes ==
    (Sanitized /\ caller = "sanitize"
       /\ \A k \in 1..Len(selectors_to_remove) :
            \/ EvaluateRaises(selectors_to_remove[k])
            \/ OwnAttributes(selectors_to_remove[k]))
    => /\ present = WithoutMatches(selectors_to_remove)
       /\ \A q \in Reorderings(selectors_to_remove) : FinalDom(q) = present

\* C13 witness: '.promo' then '.ads' on a document whose ads element
\* contains the promo element: both selectors matched, nothing is left.
C13_Witness ==
    /\ caller = "sanitize" /\ pc = "done"
    /\ options.kind = "dict" /\ "custom_selectors" \in DOMAIN options
    /\ options.custom_selectors = <<SelPromo, SelAds>>
    /\ ~Get(options, "remove_common_unwanted", FALSE)
    /\ Len(page_nodes) = 2
    /\ page_nodes[1].class = "ads"
    /\ page_nodes[2].class = "promo" /\ page_nodes[2].parent = 1
    /\ present = {} /\ removed_count = 2

\* The session has parsed the content and run the walk over its tags.
Walked ==
    /\ \E k \in 1..Len(steps) : steps[k] = "write"
    /\ session_exc # "import"

\* The converter run failed: not spawned, or a non-zero exit.
RunFailed(run) ==
    \/ run.kind = "spawn_error"
    \/ run.kind = "exited" /\ run.returncode # 0

\* The utility classes a converter run returned for its tag.
Returned(run) ==
    IF run.kind = "exited" /\ run.returncode = 0
       THEN SelectSeq(run.stdout, LAMBDA piece : piece \notin {" ", "\n"})
       ELSE <<>>

C15_ConversionFailureContained ==
    (Walked /\ \E k \in 1..Len(conversions) : RunFailed(conversions[k])) =>
      LET s0 == ParseContent(main_content)
      IN  /\ session_exc \in {"none", "write"}
          /\ Len(soup) = Len(s0)
          /\ \A k \in 1..Len(s0) :
               /\ soup[k].style = "absent"
               /\ RunFailed(conversions[k]) => soup[k].class = s0[k].class
               /\ ~RunFailed(conversions[k]) =>
                    soup[k].class = s0[k].class \o Returned(conversions[k])
          /\ session_exc = "none" => dom_written /\ result = "True"

\* C15 witness: the converter could not be spawned for the first tag of
\* main; the second tag, after it, got its classes, and the artifact is
\* written.
C15_Witness ==
    /\ pc = "done" /\ selector_used = "main"
    /\ Len(conversions) = 2 /\ Len(soup) = 2
    /\ conversions[1].kind = "spawn_error"
    /\ soup[1] = [style |-> "absent", class |-> <<"hero", "big">>]
    /\ soup[2] = [style |-> "absent", class |-> <<"p-4", "m-2">>]
    /\ dom_written /\ result = "True"

\* C16 as stated: at the assembly step the encoder is invoked exactly when
\* at least 2 frames were captured.
C16_Original ==
    [][pc = "rec_asm" => (ffmpeg_ran' <=> Len(frames) >= 2)]_vars

\* C16 amended: the assembly step is reached with at least 24 frames (the
\* two settle bursts), so its branch for fewer than 2 frames, which returns
\* success without probing, is never taken: it always probes for the
\* encoder and invokes it only when the probe succeeds, reporting failure
\* when the encoder is missing or exits non-zero.  A recording that does
\* not reach the assembly step (short page, exception) neither probes nor
\* invokes the encoder.
C16_EncoderAfterProbe ==
    /\ [][pc = "rec_asm" =>
            /\ Len(frames) >= SettleFrames + FinalFrames
            /\ ffmpeg_probed'
            /\ video_file' => ffmpeg_ran'
            /\ video_success' <=> video_file']_vars
    /\ [](ffmpeg_ran => ffmpeg_probed)
    /\ []((pc \in RecPcs \/ rec_exc # "none" \/ temp_dir = "none")
            => ~ffmpeg_probed /\ ~ffmpeg_ran)

\* C16 witness: a recorder that reached the assembly step without ffmpeg
\* installed has probed, has not run the encoding, and returned False.
C16_Witness ==
    /\ caller = "record" /\ pc = "done"
    /\ ffmpeg_probed /\ ~ffmpeg_ran /\ ~video_file
    /\ result = "False" /\ temp_dir = "removed"

\* The session's result, as its except clause decides it.
ResultOfExc == IF session_exc = "none" THEN "True" ELSE "False"

\* The step named st has been started.
Started(st) == \E k \in 1..Len(steps) : steps[k] = st

\* C17: a failed video step leaves the session going: the wait,
\* sanitization and extraction run after it, and the session's result is
\* decided by what comes later alone, as it is after a video step that
\* succeeded.
C17_VideoFailureNotFatal ==
    /\ (caller = "capture" /\ pc = "done") => result = ResultOfExc
    /\ (caller = "capture" /\ ~video_success) =>
         /\ pc \in {"settle", "sanitize", "text", "extract", "write", "done"}
         /\ session_exc \notin GotoFailures
         /\ pc = "done" =>
              /\ Started("settle") /\ Started("sanitize")
              /\ Started("text") /\ Started("extract")
              /\ Sanitized /\ Extracted

\* C17 witness: ffmpeg was missing, the video step reported failure, and
\* the session wrote its artifact and returned True.
C17_Witness ==
    /\ caller = "capture" /\ pc = "done"
    /\ ~video_success /\ rec_exc = "none"
    /\ ffmpeg_probed /\ ~ffmpeg_ran
    /\ dom_written /\ result = "True"

\* C18 as stated: the value a session returns with both artifacts produced
\* is returned by no session that produced fewer.
C18_Original ==
    (caller = "capture" /\ pc = "done" /\ result = "True")
    => video_file /\ dom_written

\* C18 amended: the outcome is one boolean: False when an exception reached
\* the session's handler, True otherwise, whichever artifacts were
\* produced; a False session has written no DOM artifact.
C18_BooleanOutcome ==
    (caller = "capture" /\ pc = "done") =>
      /\ result \in {"True", "False"}
      /\ result = "True" <=> session_exc = "none"
      /\ result = "False" => ~dom_written

\* C18 witness: a session that produced the video and no DOM artifact has
\* returned True.
C18_Witness ==
    /\ caller = "capture" /\ pc = "done"
    /\ video_file /\ ~dom_written /\ result = "True"

\* C19: when page.goto times out the session goes on: it records,
\* sanitizes and extracts, and does not fail because of the timeout.
C19_TimeoutProceeds ==
    (caller = "capture" /\ pc = "done" /\ Started("navigate")
       /\ session_exc = "goto_timeout")
    => /\ result = "True"
       /\ Started("settle") /\ Sanitized /\ Extracted

\* q starts with p.
IsPrefix(p, q) == Len(p) <= Len(q) /\ SubSeq(q, 1, Len(p)) = p

\* The steps of a session that completes, by whether it records and whether
\* it found content.
FullOrder(rv, content) ==
    <<"navigate">>
    \o (IF rv THEN <<"record", "recorded">> ELSE <<>>)
    \o <<"settle", "sanitize", "text", "extract">>
    \o (IF content THEN <<"write">> ELSE <<>>)
    \o <<"close">>

\* C20: the steps of a session come in the one order navigate, record,
\* wait, sanitize, extract text, extract content, write, close, each at
\* most once; while the recorder runs nothing after it has started, and a
\* session that returns without exception has gone through all of them.
C20_StepsInFixedOrder ==
    caller = "capture" =>
      /\ \/ \E content \in BOOLEAN :
              IsPrefix(steps, FullOrder(record_video, content))
         \/ steps = <<"navigate", "close">>
      /\ pc \in RecPcs => steps = <<"navigate", "record">>
      /\ (pc = "done" /\ session_exc = "none") =>
           steps = FullOrder(record_video, Truthy(main_content))
      /\ pc = "done" => steps[Len(steps)] = "close" /\ ~browser_open

\* C20 witness: a session that recorded a video and wrote its artifact has
\* gone through every step.
C20_Witness ==
    /\ caller = "capture" /\ pc = "done"
    /\ video_file /\ dom_written
    /\ steps = <<"navigate", "record", "recorded", "settle", "sanitize",
                 "text", "extract", "write", "close">>

\* C21: the first-scroll latch belongs to the session: every run of the
\* recorder that ends a loop iteration with the page scrolled has printed
\* its first-scroll notification, whatever the runs before it in the same
\* process printed.
C21_LatchPerSession ==
    [][(pc = "rec_pause" /\ pc' = "rec_loop" /\ current_scroll > 0)
       => notified']_vars

\* C22: when the page has grown during the scroll loop, max_scroll_top is
\* the grown height less the viewport by the next loop test, and a loop
\* that ends by its test has reached the bottom of the grown page.
C22_MaxScrollTopTracksGrowth ==
    /\ pc = "rec_loop" =>
         max_scroll_top = MaxScrollTop(page_height, viewport_height)
    /\ (pc = "rec_final" /\ loop_exit = "guard") =>
         current_scroll >=
           MaxScrollTop(page_height, viewport_height) - ScrollEpsilon

\* C23: while a recording runs, the tracked offset current_scroll never
\* decreases, whatever offsets the page reports back.
C23_OffsetMonotonic ==
    [][(pc \in RecPcs /\ pc' \in RecPcs) => current_scroll' >= current_scroll]_vars

\* The options hold no text but that of the page of the URL at hand.
NoTextOfEarlierUrl ==
    Get(options, "extracted_text", NoText) \in ExtractedTexts(session_no)

\* C24: a session leaves the options object it was given as it found it,
\* so every session of a batch sees the same options, and the options of a
\* session hold nothing taken from the page of another URL.
C24_OptionsUnchanged ==
    /\ [][options # OptionsUnread => options' = options]_vars
    /\ []NoTextOfEarlierUrl

\* The path without its last piece, and the directory of a path: all
\* before its last '/'.
ButLast(path) == SubSeq(path, 1, Len(path) - 1)
RECURSIVE DirName(_)
DirName(path) ==
    IF path = <<>> THEN <<>>
    ELSE IF path[Len(path)] = "/" THEN ButLast(path)
    ELSE DirName(ButLast(path))

\* The path with only its trailing '.png' replaced by suffix.
SuffixReplaced(path, suffix) == Append(ButLast(path), suffix)

\* C25: for every output path ending in '.png', the video path and the
\* DOM path are the output path with that last '.png' alone replaced, so
\* both lie in the directory of the output path, also when '.png' occurs
\* elsewhere in the path.
C25_SuffixSubstitutionOnly ==
    (output_path # <<>> /\ output_path[Len(output_path)] = ".png") =>
      /\ video_output_path # <<>> =>
           /\ video_output_path =
                SuffixReplaced(output_path, "_scroll_video.mp4")
           /\ DirName(video_output_path) = DirName(output_path)
      /\ dom_output_path # <<>> =>
           /\ dom_output_path = SuffixReplaced(output_path, "_dom.html")
           /\ DirName(dom_output_path) = DirName(output_path)

\* The image files among fs: those whose name ends in .png.
PngFiles(fs) == {f \in fs : f[Len(f)] = ".png"}

\* The visible, non-empty elements of a list.
VisibleNonEmpty(es) ==
    {k \in 1..Len(es) : es[k].visible /\ es[k].html # ""}

\* C26: when screenshot_sections has run on a page with N visible,
\* non-empty section elements and none of them raised, the image files in
\* the output directory are exactly section_1.png ... section_N.png.
C26_OneImagePerSection ==
    (caller = "sections" /\ pc = "done" /\ selector = "section"
       /\ Cardinality({f \in files : f[Len(f)] = ".html"})
            = Cardinality(VisibleNonEmpty(elements)))
    => PngFiles(files) =
         {<<"section_", k, ".png">> :
             k \in 1..Cardinality(VisibleNonEmpty(elements))}

\* C27: the offsets a segment issues never decrease and lie between the
\* segment's start and its target; there is one frame capture for each
\* offset issued; no offset before the last is within one pixel of the
\* target and the last one is, so the segment stops at the first such
\* offset; a segment that runs all its steps ends on the target itself.
C27_SegmentStepsAndEarlyStop ==
    /\ [](pc = "rec_read" =>
            /\ Len(offsets) \in 1..frames_in_segment
            /\ i = Len(offsets) /\ y = offsets[Len(offsets)]
            /\ \A k \in 1..Len(offsets) :
                 /\ start_y <= offsets[k] /\ offsets[k] <= target_scroll
                 /\ k < Len(offsets) =>
                      /\ offsets[k] <= offsets[k + 1]
                      /\ offsets[k] < target_scroll - 1
            /\ offsets[Len(offsets)] >= target_scroll - 1
            /\ Len(offsets) = frames_in_segment =>
                 offsets[Len(offsets)] = target_scroll)
    /\ [][(pc = "rec_seg" /\ pc' = "rec_read") =>
            /\ frame_count' = frame_count + Len(offsets')
            /\ Len(frames') = Len(frames) + Len(offsets')]_vars

\* C27 witness: a segment that stopped before its last step, on the offset
\* one pixel short of its target.
C27_Witness ==
    /\ pc = "rec_read"
    /\ Len(offsets) > 1 /\ Len(offsets) < frames_in_segment
    /\ y = target_scroll - 1
    /\ frame_count = SettleFrames + Len(offsets)

\* C28: the scroll loop is always left, whatever offsets the page reads
\* back: the loop body is entered at most 27 times; each time the loop test
\* is reached again, every body entered so far has added at least 13 frames
\* (one of the segment and the 12 of the pause) to the 12 of the start, and
\* the frame count is not over the safety limit; a body goes on to its
\* pause only when the offset has changed, and the pause adds 12 frames;
\* and a recorder that is in the loop is later out of it.
C28_LoopTerminates ==
    /\ [](iterations <= 27)
    /\ [](pc = "rec_loop" =>
            /\ frame_count >= SettleFrames + (1 + PauseFrames) * iterations
            /\ frame_count <= MaxFrames)
    /\ [][(pc = "rec_read" /\ pc' = "rec_pause") =>
            /\ current_scroll' # current_scroll
            /\ frame_count' = frame_count]_vars
    /\ [][(pc = "rec_pause" /\ pc' \in {"rec_loop", "rec_final"}) =>
            frame_count' = frame_count + PauseFrames]_vars
    /\ (pc \in LoopPcs ~> pc \notin LoopPcs)

\* The 27th body of the loop is at its pause, each body before it having
\* added just 13 frames, on a page that has just read back offset 0 after
\* an offset above it; the pause takes the count to 363 and the safety
\* limit ends the loop.
C28_Witness ==
    /\ pc = "rec_pause"
    /\ iterations = 27
    /\ current_scroll = 0
    /\ frame_count = SettleFrames + (1 + PauseFrames) * 26 + 1

\* C29: frames_in_segment is between 8 and 15 for every duration and
\* interval that can be drawn, the eased loop captures no more frames than
\* that, and a recording holds at most 399 frames: at most 360 when a
\* body of the loop starts, at most 15 more after its segment, 12 more
\* after its pause, and 12 more after the final burst.
C29_SegmentAndTotalFrames ==
    /\ SegmentCounts \subseteq 8..15
    /\ pc \in {"rec_seg", "rec_read"} =>
         frames_in_segment \in 8..15
    /\ pc = "rec_seg" => frame_count <= MaxFrames
    /\ pc = "rec_read" =>
         /\ Len(offsets) <= frames_in_segment
         /\ frame_count <= MaxFrames + Len(offsets)
    /\ pc = "rec_pause" => frame_count <= MaxFrames + 15
    /\ pc = "rec_final" =>
         frame_count <= MaxFrames + 15 + PauseFrames
    /\ Len(frames) = frame_count
    /\ frame_count <= 399

\* C29 witness: a body that started with 360 frames has captured all 15
\* frames of its segment.
C29_Witness ==
    /\ pc = "rec_read"
    /\ frames_in_segment = 15
    /\ Len(offsets) = 15
    /\ frame_count = MaxFrames + 15

\* The frame files in the temp directory: a capture to a path that already
\* holds a file replaces it.
FrameFiles == {frames[k] : k \in 1..Len(frames)}

\* C30: at the assembly decision of line 265 at least 24 frames have been
\* captured, so its test len(frames) > 1 holds; the frame count handed to
\* create_video_from_frames_sync is the number of frame files in the temp
\* directory; and a recorder that went past the decision without an
\* exception has called create_video_from_frames_sync, whose first step is
\* the probe for the encoder.
C30_AssemblyHasFrames ==
    /\ pc = "rec_asm" =>
         /\ frame_count >= 24
         /\ Len(frames) > 1
         /\ frame_count = Len(frames)
         /\ frame_count = Cardinality(FrameFiles)
         /\ rec_exc = "none" /\ temp_dir = "exists"
    /\ (temp_dir = "removed" /\ rec_exc = "none") => ffmpeg_probed

\* C30 witness: the assembly decision reached with just the two settle
\* bursts, on a page whose first segment has distance 0.
C30_Witness ==
    /\ pc = "rec_asm"
    /\ loop_exit = "distance"
    /\ frame_count = SettleFrames + FinalFrames
    /\ Cardinality(FrameFiles) = 24

====
